---- MODULE Spec2Model ----
(***************************************************************************)
(* A model of typ's test runner (src/typ/runner.py): discovery and         *)
(* classification of units (Runner.find_tests, _default_classifier), the   *)
(* dispatch of one pass (Runner._run_one_set, _skip_tests, _run_list), the *)
(* retry loop (Runner._run_tests) and the worker's handling of one unit    *)
(* (_run_one_test, _result_from_test_result), and around them the command *)
(* line (ArgumentParser.parse_args in src/typ/arg_parser.py), Runner.main  *)
(* and what Runner.run reports: exit code, full results, trace, upload.    *)
(*                                                                         *)
(* Six specifications share the variables: Spec is a run from discovery   *)
(* to the return of _run_tests, for any accepted --jobs, --retry-limit,    *)
(* --skip and --isolate; SpecSupplied is a run of a TestSet the caller     *)
(* built; SpecMain is Runner.main from the command line to its return,     *)
(* with metadata, a results server and files to write; SpecParse is        *)
(* parse_args alone; SpecChild is one _run_one_test call, and the Result   *)
(* of the unit when skipped; SpecLoad is one _load_via_load_tests call.    *)
(*                                                                         *)
(* typ/pool.py and typ/json_results.py are not among the sources; the pool *)
(* (a task channel in, a result channel out, a fixed number of workers,    *)
(* each set up once and torn down once), failed_test_names and the full    *)
(* results are modelled from the specification's words.                    *)
(***************************************************************************)
EXTENDS Integers, Sequences, FiniteSets, TLC

(***************************************************************************)
(* Bounds of the model.                                                    *)
(***************************************************************************)
\* the most units discovery produces
MaxUnits == 2
\* the largest --jobs value tried (the smallest is -1)
MaxJobs == 2
\* the largest --retry-limit value tried (the smallest is -1)
MaxRetry == 1
\* retry passes after which a run whose counter never reaches zero is cut off
MaxPasses == 2
\* the most components of a dotted unit name given to _load_via_load_tests
MaxComps == 3

(***************************************************************************)
(* Unit names and globs are sequences of one-character strings; Ord is the *)
(* code point, by which Python compares strings.                           *)
(***************************************************************************)
Ord(c) ==
    CASE c = "*" -> 42
      [] c = "?" -> 63
      [] c = "a" -> 97
      [] c = "b" -> 98

AllNames == { <<"a">>, <<"a", "b">>, <<"b">> }

\* the values tried for --skip and for --isolate: lists of globs
GlobLists ==
    { <<>>,
      << <<"a", "*">> >>,
      << <<"*", "b">> >>,
      << <<"a", "*">>, <<"?">> >> }

Min(x, y) == IF x <= y THEN x ELSE y

Range(s) == { s[i] : i \in 1..Len(s) }

\* name comparison: Python's str <
RECURSIVE NameLess(_, _)
NameLess(x, y) ==
    IF y = <<>> THEN FALSE
    ELSE IF x = <<>> THEN TRUE
    ELSE IF Ord(Head(x)) # Ord(Head(y)) THEN Ord(Head(x)) < Ord(Head(y))
    ELSE NameLess(Tail(x), Tail(y))

\* fnmatch.fnmatch(name, glob) for globs made of literals, * and ?
RECURSIVE FnMatch(_, _)
FnMatch(name, glob) ==
    IF glob = <<>> THEN name = <<>>
    ELSE IF Head(glob) = "*"
         THEN FnMatch(name, Tail(glob))
              \/ (name # <<>> /\ FnMatch(Tail(name), glob))
    ELSE /\ name # <<>>
         /\ (Head(glob) = "?" \/ Head(glob) = Head(name))
         /\ FnMatch(Tail(name), Tail(glob))

\* _matches(name, globs)
Matches(name, globs) == \E i \in 1..Len(globs) : FnMatch(name, globs[i])

\* TestInput(name, msg)
TestInput(name, msg) == [name |-> name, msg |-> msg]

Names(inps) == [i \in 1..Len(inps) |-> inps[i].name]

\* insert inp into the sorted list s after every element whose name is not larger
RECURSIVE InsertSorted(_, _)
InsertSorted(s, inp) ==
    IF s = <<>> THEN <<inp>>
    ELSE IF NameLess(inp.name, Head(s).name) THEN <<inp>> \o s
    ELSE <<Head(s)>> \o InsertSorted(Tail(s), inp)

RECURSIVE SortFrom(_, _)
SortFrom(done, rest) ==
    IF rest = <<>> THEN done
    ELSE SortFrom(InsertSorted(done, Head(rest)), Tail(rest))

\* _sort_inputs(inps): sorted(inps, key=name), a stable sort
SortInputs(inps) == SortFrom(<<>>, inps)

IsSorted(names) ==
    \A i \in 1..Len(names) - 1 : ~NameLess(names[i + 1], names[i])

(***************************************************************************)
(* Results.  A Result carries the fields the runner reads: name, actual,   *)
(* expected, unexpected, code, out and err.  err is the tag of the text    *)
(* the worker put there, not the text.                                     *)
(***************************************************************************)
Result(name, actual, expected, unexpected, code, out, err) ==
    [name |-> name, actual |-> actual, expected |-> expected,
     unexpected |-> unexpected, code |-> code, out |-> out, err |-> err]

\* the value standing for "no Result"
NoResult == Result(<<>>, "None", {}, FALSE, 0, "", "")

\* a unittest.TestResult: which of its five lists are non-empty
TestResults ==
    [failures : BOOLEAN, errors : BOOLEAN, skipped : BOOLEAN,
     expectedFailures : BOOLEAN, unexpectedSuccesses : BOOLEAN]

EmptyTestResult ==
    [failures |-> FALSE, errors |-> FALSE, skipped |-> FALSE,
     expectedFailures |-> FALSE, unexpectedSuccesses |-> FALSE]

\* _result_from_test_result with the skip rule tried first
ResultFromTestResultSkipFirst(tr, test_name) ==
    IF tr.skipped
    THEN Result(test_name, "Skip", {"Skip"}, FALSE, 0, "", "skipped")
    ELSE IF tr.failures
    THEN Result(test_name, "Failure", {"Pass"}, TRUE, 1, "", "failures")
    ELSE IF tr.errors
    THEN Result(test_name, "Failure", {"Pass"}, TRUE, 1, "", "errors")
    ELSE IF tr.expectedFailures
    THEN Result(test_name, "Failure", {"Failure"}, FALSE, 1, "", "expectedFailures")
    ELSE IF tr.unexpectedSuccesses
    THEN Result(test_name, "Pass", {"Failure"}, TRUE, 0, "", "")
    ELSE Result(test_name, "Pass", {"Pass"}, FALSE, 0, "", "")

\* _result_from_test_result flagging every Failure as unexpected
ResultFromTestResultFailureUnexpected(tr, test_name) ==
    IF tr.failures
    THEN Result(test_name, "Failure", {"Pass"}, TRUE, 1, "", "failures")
    ELSE IF tr.errors
    THEN Result(test_name, "Failure", {"Pass"}, TRUE, 1, "", "errors")
    ELSE IF tr.skipped
    THEN Result(test_name, "Skip", {"Skip"}, FALSE, 0, "", "skipped")
    ELSE IF tr.expectedFailures
    THEN Result(test_name, "Failure", {"Failure"}, TRUE, 1, "", "expectedFailures")
    ELSE IF tr.unexpectedSuccesses
    THEN Result(test_name, "Pass", {"Failure"}, TRUE, 0, "", "")
    ELSE Result(test_name, "Pass", {"Pass"}, FALSE, 0, "", "")

\* _result_from_test_result(test_result, test_name, ...)
ResultFromTestResult(tr, test_name) ==
    IF tr.failures
    THEN Result(test_name, "Failure", {"Pass"}, TRUE, 1, "", "failures")
    ELSE IF tr.errors
    THEN Result(test_name, "Failure", {"Pass"}, TRUE, 1, "", "errors")
    ELSE IF tr.skipped
    THEN Result(test_name, "Skip", {"Skip"}, FALSE, 0, "", "skipped")
    ELSE IF tr.expectedFailures
    THEN Result(test_name, "Failure", {"Failure"}, FALSE, 1, "", "expectedFailures")
    ELSE IF tr.unexpectedSuccesses
    THEN Result(test_name, "Pass", {"Failure"}, TRUE, 0, "", "")
    ELSE Result(test_name, "Pass", {"Pass"}, FALSE, 0, "", "")

(***************************************************************************)
(* The worker's handling of one unit.  A load is how the name resolved:    *)
(* kind "direct" when loader.loadTestsFromName returned, "fallback" when   *)
(* it raised and _load_via_load_tests returned, "fallback_raises" when     *)
(* _load_via_load_tests raised too; n is len(list(suite)).                 *)
(***************************************************************************)
LoadKinds == {"direct", "fallback", "fallback_raises"}

Loads == [kind : LoadKinds, n : 0..2]

\* Whether the name e is bound where line 658 reads it: only the except
\* clause of line 653 binds it, and Python 3 unbinds it when the clause ends.
EBound(py3, load) == load.kind = "fallback" /\ ~py3

\* What one call of _run_one_test does: whether it raises, the Result it
\* returns, and how many times it called capture_output and restore_output.
Returned(result) ==
    [raised |-> FALSE, result |-> result, captures |-> 1, restores |-> 1]

Raised == [raised |-> TRUE, result |-> NoResult, captures |-> 1, restores |-> 0]

\* _run_one_test(child, test_input).  The Result of lines 660-662 is given no
\* expected: it has Result's default, [Pass].
RunOneTest(test_name, py3, dry_run, load, tr) ==
    IF load.kind = "fallback_raises" THEN Raised
    ELSE IF load.n # 1
    THEN IF EBound(py3, load)
         THEN Returned(Result(test_name, "Failure", {"Pass"}, TRUE, 1, "",
                              "failed to load"))
         ELSE Raised
    ELSE Returned(ResultFromTestResult(IF dry_run THEN EmptyTestResult ELSE tr,
                                       test_name))

(***************************************************************************)
(* The runner's state.                                                     *)
(***************************************************************************)
VARIABLES
    args,            \* self.args
    discovered,      \* the unit names the loader yields, not yet classified
    nDiscovered,     \* how many units the loader yielded
    test_set,        \* the TestSet of the initial pass
    tests_to_retry,  \* the TestSet of the current retry pass
    result_set,      \* result_set.results
    retry_set,       \* retry_set.results of the current retry pass
    failed_tests,    \* _run_tests' failed_tests
    retry_limit,     \* _run_tests' retry_limit counter
    self_stats,      \* self.stats
    retry_stats,     \* the Stats of the current retry pass
    pc,              \* where the runner is
    bucket,          \* the list the current _run_list call was given
    jobs,            \* _run_list's local jobs
    pool,            \* the pool _run_list made
    running_jobs,    \* _run_list's running_jobs
    passes,          \* retry passes started so far
    submitted,       \* history: the pool.send calls of the current pass
    passInputs,      \* history: the three lists as the current pass got them
    prevFailed,      \* history: failed_tests when the current retry pass began
    call,            \* one call of _run_one_test: its inputs and what it did
    ret,             \* run's ret, and what main returns
    full_results,    \* run's full_results
    trace,           \* run's trace
    log,             \* what was printed, written to a file or fetched, in order
    collected,       \* history: len(result_set.results) when run was interrupted
    joined,          \* history: the children of the workers of joined pools
    printer,         \* self.printer
    first_retries,   \* history: how often the block of lines 289-292 ran
    all_tests        \* _run_tests' all_tests

vars ==
    <<args, discovered, nDiscovered, test_set, tests_to_retry, result_set,
      retry_set, failed_tests, retry_limit, self_stats, retry_stats, pc, bucket,
      jobs, pool, running_jobs, passes, submitted, passInputs, prevFailed, call,
      ret, full_results, trace, log, collected, joined, printer,
      first_retries, all_tests>>

\* the printer and the names _run_tests keeps
printVars == <<printer, first_retries, all_tests>>

\* what run reports
reportVars == <<ret, full_results, trace, log, collected>>

\* TestSet(parallel_tests, isolated_tests, tests_to_skip, context, setup_fn, teardown_fn)
TestSet(parallel, isolated, skip, context, setup_fn, teardown_fn) ==
    [parallel_tests |-> parallel, isolated_tests |-> isolated,
     tests_to_skip |-> skip, context |-> context, setup_fn |-> setup_fn,
     teardown_fn |-> teardown_fn]

\* Runner._make_test_set
MakeTestSet(parallel, isolated, skip, context, setup_fn, teardown_fn) ==
    TestSet(SortInputs(parallel), SortInputs(isolated), SortInputs(skip),
            context, setup_fn, teardown_fn)

NoTestSet == TestSet(<<>>, <<>>, <<>>, "None", "None", "None")

\* Stats(status_format, time_fn, jobs): the three counters
NewStats == [total |-> 0, started |-> 0, finished |-> 0]

NoInputs == [parallel_tests |-> <<>>, isolated_tests |-> <<>>, tests_to_skip |-> <<>>]

\* the classifier with the isolate globs tried before the skip globs
DefaultClassifierIsolateFirst(a, ts, name) ==
    IF Matches(name, a.isolate)
    THEN [ts EXCEPT !.isolated_tests = Append(@, TestInput(name, ""))]
    ELSE IF Matches(name, a.skip)
    THEN [ts EXCEPT !.tests_to_skip =
                        Append(@, TestInput(name, "skipped by request"))]
    ELSE [ts EXCEPT !.parallel_tests = Append(@, TestInput(name, ""))]

\* the default classifier of _default_classifier(args)
DefaultClassifier(a, ts, name) ==
    IF Matches(name, a.skip)
    THEN [ts EXCEPT !.tests_to_skip =
                        Append(@, TestInput(name, "skipped by request"))]
    ELSE IF Matches(name, a.isolate)
    THEN [ts EXCEPT !.isolated_tests = Append(@, TestInput(name, ""))]
    ELSE [ts EXCEPT !.parallel_tests = Append(@, TestInput(name, ""))]

\* find_tests' loop over the names: the classifier is called on each unit in turn
RECURSIVE AddTests(_, _, _)
AddTests(a, ts, names) ==
    IF names = <<>> THEN ts
    ELSE AddTests(a, DefaultClassifier(a, ts, Head(names)), Tail(names))

\* Runner.find_tests when every name loads (lines 204-214, 224-227)
FindTestSet(a, names, context, setup_fn, teardown_fn) ==
    LET ts == AddTests(a, MakeTestSet(<<>>, <<>>, <<>>, context, setup_fn,
                                      teardown_fn), names)
    IN  [ts EXCEPT !.parallel_tests = SortInputs(@),
                   !.isolated_tests = SortInputs(@),
                   !.tests_to_skip = SortInputs(@)]

\* json_results.failed_test_names: the names whose latest actual is Failure
FailedTestNames(results) ==
    { results[i].name : i \in { k \in 1..Len(results) :
          /\ results[k].actual = "Failure"
          /\ \A j \in (k + 1)..Len(results) : results[j].name # results[k].name } }

\* [TestInput(name) for name in failed_tests], in some order
RECURSIVE InputsOf(_)
InputsOf(names) ==
    IF names = {} THEN <<>>
    ELSE LET n == CHOOSE x \in names : TRUE
         IN  <<TestInput(n, "")>> \o InputsOf(names \ {n})

\* the retry TestSet with the failed names put in the parallel list
RetryTestSetParallel(failed, ts) ==
    MakeTestSet(InputsOf(failed), <<>>, <<>>, ts.context, ts.setup_fn,
                ts.teardown_fn)

\* the TestSet of a retry pass (lines 302-306)
RetryTestSet(failed, ts) ==
    MakeTestSet(<<>>, InputsOf(failed), <<>>, ts.context, ts.setup_fn,
                ts.teardown_fn)

\* the retry's results replacing the collection instead of extending it
ExtendResultsReplace(results, more) == more

\* result_set.results with the retry pass's Results put in front
ExtendResultsPrepend(results, more) == more \o results

\* result_set.results.extend(retry_set.results)
ExtendResults(results, more) == results \o more

\* the isolated list run with the configured jobs
IsolatedJobsConfigured == args.jobs

\* the jobs argument _run_one_set passes for the isolated list
IsolatedJobs == 1

(***************************************************************************)
(* The child a worker works with, and the per-worker hooks.                *)
(***************************************************************************)
\* context_after_setup before _setup_process ran (None)
NoContext == [from |-> "None", context |-> "None"]

\* _Child.__init__; setups, teardowns and teardown_context record the calls
\* of the two hooks
Child(a, ts) ==
    [worker_num |-> 0, passthrough |-> a.passthrough, context |-> ts.context,
     setup_fn |-> ts.setup_fn, teardown_fn |-> ts.teardown_fn,
     context_after_setup |-> NoContext,
     setups |-> 0, teardowns |-> 0, teardown_context |-> NoContext]

\* _setup_process without the call of setup_fn
SetupProcessNoHook(worker_num, child) ==
    [child EXCEPT !.worker_num = worker_num,
                  !.context_after_setup = [from |-> "context",
                                           context |-> child.context],
                  !.setups = @ + 1]

\* _setup_process(host, worker_num, child)
SetupProcess(worker_num, child) ==
    [child EXCEPT !.worker_num = worker_num,
                  !.context_after_setup =
                      IF child.setup_fn # "None"
                      THEN [from |-> child.setup_fn, context |-> child.context]
                      ELSE [from |-> "context", context |-> child.context],
                  !.setups = @ + 1]

\* _teardown_process(child)
TeardownProcess(child) ==
    [child EXCEPT !.teardowns = @ + 1,
                  !.teardown_context =
                      IF child.teardown_fn # "None"
                      THEN child.context_after_setup
                      ELSE @]

\* the context _run_one_test gives a TypTestCase (lines 665-667)
TestCaseContext(child) == child.context_after_setup

(***************************************************************************)
(* The pool: jobs workers, a channel of submitted units (msgs) and a       *)
(* channel of responses (resps).  A worker takes one unit at a time.       *)
(***************************************************************************)
\* a worker: its state, the unit it runs, the context that unit's test case
\* was given, and its child
Worker(state, unit, context, child) ==
    [state |-> state, unit |-> unit, context |-> context, child |-> child]

NoPool == [size |-> 0, msgs |-> <<>>, workers |-> <<>>, resps |-> <<>>]

\* make_pool(host, jobs, _run_one_test, child, _setup_process, _teardown_process):
\* each worker gets the child and calls _setup_process once before it takes
\* a unit
MakePool(n, child) ==
    [size |-> n, msgs |-> <<>>,
     workers |-> [w \in 1..(IF n > 0 THEN n ELSE 0) |->
                     Worker("ready", <<>>, NoContext, SetupProcess(w, child))],
     resps |-> <<>>]

\* pool.join(): each worker calls _teardown_process once when the pool drains
JoinPool(p) ==
    { TeardownProcess(p.workers[w].child) : w \in 1..Len(p.workers) }

Response(type, result) == [type |-> type, result |-> result]

\* the workers running a unit
Active == { w \in 1..Len(pool.workers) : pool.workers[w].state = "active" }

\* units sent to the pool whose Result the runner has not received
InFlight == Len(pool.msgs) + Cardinality(Active) + Len(pool.resps)

(***************************************************************************)
(* The inputs of a run.                                                    *)
(***************************************************************************)
\* the lists of at most MaxUnits pairwise distinct unit names, in any order
Discoveries ==
    { s \in UNION { [1..n -> AllNames] : n \in 0..Min(MaxUnits, Cardinality(AllNames)) } :
        \A i, j \in 1..Len(s) : i # j => s[i] # s[j] }

\* the command lines tried have --overwrite and -v twice, so that what the
\* first retry does to them shows
VerboseGiven == 2

\* Printer(print_, should_overwrite, cols)
Printer(should_overwrite) == [should_overwrite |-> should_overwrite]

\* self.printer = None
NoPrinter == [should_overwrite |-> FALSE]

\* a --metadata entry as its characters; what matters is where the '=' are
MetadataLists ==
    { << <<"k", "=", "v">> >>,
      << <<"k">> >>,
      << <<"k", "=", "v", "=", "w">> >>,
      << <<"k", "=", "v">>, <<"k">> >> }

\* the arguments the parser accepts: --jobs and --retry-limit are any int;
\* an option that takes a string is TRUE when it was given.  Here nothing
\* is reported: no metadata, no results server, no file to write.
ArgsValues ==
    [jobs : -1..MaxJobs, retry_limit : -1..MaxRetry,
     skip : GlobLists, isolate : GlobLists,
     metadata : {<<>>}, test_results_server : {FALSE}, builder_name : {FALSE},
     master_name : {FALSE}, test_type : {FALSE},
     write_full_results_to : {FALSE}, write_trace_to : {FALSE},
     passthrough : {FALSE}, debugger : {FALSE}, coverage : {FALSE},
     overwrite : {TRUE}, verbose : {VerboseGiven}]

\* the command lines of a reporting run: metadata, a results server with or
\* without its three companions, the two files written or not
MainArgv ==
    { a \in [jobs : 1..MaxJobs, retry_limit : 0..MaxRetry,
             skip : {<<>>, <<<<"a", "*">>>>}, isolate : {<<>>},
             metadata : MetadataLists, test_results_server : BOOLEAN,
             builder_name : BOOLEAN, master_name : BOOLEAN, test_type : BOOLEAN,
             write_full_results_to : BOOLEAN, write_trace_to : BOOLEAN,
             passthrough : {FALSE}, debugger : {FALSE}, coverage : {FALSE},
             overwrite : {TRUE}, verbose : {VerboseGiven}] :
        /\ a.write_trace_to = a.write_full_results_to
        /\ ~a.test_results_server =>
              ~(a.builder_name \/ a.master_name \/ a.test_type) }

\* the command lines that matter to the options parse_args rewrites
ParseArgv ==
    { a \in [jobs : 1..MaxJobs, retry_limit : {0},
             skip : {<<>>}, isolate : {<<>>},
             metadata : MetadataLists \cup {<<>>}, test_results_server : BOOLEAN,
             builder_name : BOOLEAN, master_name : BOOLEAN, test_type : BOOLEAN,
             write_full_results_to : {FALSE}, write_trace_to : {FALSE},
             passthrough : BOOLEAN, debugger : BOOLEAN, coverage : BOOLEAN,
             overwrite : {TRUE}, verbose : {VerboseGiven}] :
        ~a.test_results_server =>
            ~(a.builder_name \/ a.master_name \/ a.test_type) }

\* the test results and loads a worker of the run meets
RunTestResults ==
    { tr \in TestResults :
        /\ ~tr.errors /\ ~tr.expectedFailures /\ ~tr.unexpectedSuccesses
        /\ ~(tr.failures /\ tr.skipped) }

RunLoads == { l \in Loads : l.kind = "direct" /\ l.n \in {0, 1} }

NoCall ==
    [test_name |-> <<>>, py3 |-> FALSE, dry_run |-> FALSE,
     load |-> [kind |-> "direct", n |-> 1], tr |-> EmptyTestResult,
     done |-> FALSE, ret |-> Raised]

(***************************************************************************)
(* ArgumentParser.parse_args.                                              *)
(***************************************************************************)
\* c in s
Contains(s, c) == \E i \in 1..Len(s) : s[i] = c

\* s.split(sep): the pieces of s between the separators
RECURSIVE Split(_, _)
Split(s, sep) ==
    IF s = <<>> THEN << <<>> >>
    ELSE LET rest == Split(Tail(s), sep)
         IN  IF Head(s) = sep
             THEN << <<>> >> \o rest
             ELSE << <<Head(s)>> \o Head(rest) >> \o Tail(rest)

\* parse_args without the check of the metadata
ParseArgsAnyMetadata(argv, py3) ==
    [rargs |-> [argv EXCEPT !.jobs = IF argv.debugger \/ argv.coverage
                                     THEN 1 ELSE @,
                            !.passthrough = @ \/ argv.debugger],
     exit_status |->
         IF \/ argv.test_results_server
                 /\ (~argv.builder_name \/ ~argv.master_name \/ ~argv.test_type)
            \/ argv.debugger /\ py3
         THEN <<2>> ELSE <<>>]

\* parse_args (lines 166-212): the namespace it returns and the parser's
\* exit_status, <<>> for None
ParseArgs(argv, py3) ==
    [rargs |-> [argv EXCEPT !.jobs = IF argv.debugger \/ argv.coverage
                                     THEN 1 ELSE @,
                            !.passthrough = @ \/ argv.debugger],
     exit_status |->
         IF \/ \E i \in 1..Len(argv.metadata) : ~Contains(argv.metadata[i], "=")
            \/ argv.test_results_server
                 /\ (~argv.builder_name \/ ~argv.master_name \/ ~argv.test_type)
            \/ argv.debugger /\ py3
         THEN <<2>> ELSE <<>>]

(***************************************************************************)
(* What run reports: the full results, the trace, the files, the upload.   *)
(***************************************************************************)
\* full_results = None
NoFullResults == [made |-> FALSE, num_failures |-> 0]

\* the names whose latest Result is an unexpected Failure
UnexpectedFailures(results) ==
    { results[i].name : i \in { k \in 1..Len(results) :
          /\ results[k].actual = "Failure"
          /\ results[k].unexpected
          /\ \A j \in (k + 1)..Len(results) : results[j].name # results[k].name } }

\* json_results.make_full_results: the document, as its count of failures
MakeFullResults(results) ==
    [made |-> TRUE, num_failures |-> Cardinality(UnexpectedFailures(results))]

\* json_results.exit_code_from_full_results
ExitCodeFromFullResults(fr) == IF fr.num_failures = 0 THEN 0 ELSE 1

\* no trace
NoTrace == [made |-> FALSE, otherData |-> {}, traceEvents |-> 0]

\* k, v = m.split('=') raises ValueError for some m of the metadata
TraceRaises(metadata) ==
    \E i \in 1..Len(metadata) : Len(Split(metadata[i], "=")) # 2

\* _trace_from_results: otherData from the metadata, one event per Result
TraceFromResults(metadata, results) ==
    [made |-> TRUE,
     otherData |-> { <<Split(metadata[i], "=")[1], Split(metadata[i], "=")[2]>> :
                       i \in 1..Len(metadata) },
     traceEvents |-> Len(results)]

\* write_results: what it adds to the log
WriteResults(a) ==
    IF a.write_full_results_to THEN <<"write_full_results">> ELSE <<>>

\* write_trace: what it adds to the log
WriteTrace(a) == IF a.write_trace_to THEN <<"write_trace">> ELSE <<>>

\* upload_results: what it returns and adds to the log; fetch_ok is whether
\* h.fetch returned
UploadResults(a, fetch_ok) ==
    IF ~a.test_results_server THEN [ret |-> 0, log |-> <<>>]
    ELSE IF fetch_ok THEN [ret |-> 0, log |-> <<"fetch">>]
    ELSE [ret |-> 1,
          log |-> <<"fetch", "Uploading the JSON results raised">>]

\* run ignoring what upload_results returned
RunRetIgnoresUpload(r, upload_ret) == r

\* lines 147-148: if not ret: ret = upload_ret
RunRet(r, upload_ret) == IF r = 0 THEN upload_ret ELSE r

\* the report giving up after a failed upload
ReportLogUntilUpload(a, fetch_ok) ==
    WriteResults(a) \o UploadResults(a, fetch_ok).log
    \o (IF UploadResults(a, fetch_ok).ret = 0 THEN WriteTrace(a) ELSE <<>>)

\* lines 145-154: write_results, upload_results, write_trace, in this order
ReportLog(a, fetch_ok) ==
    WriteResults(a) \o UploadResults(a, fetch_ok).log \o WriteTrace(a)

Init ==
    /\ args \in ArgsValues
    /\ discovered \in Discoveries
    /\ nDiscovered = Len(discovered)
    /\ test_set = NoTestSet
    /\ tests_to_retry = NoTestSet
    /\ result_set = <<>>
    /\ retry_set = <<>>
    /\ failed_tests = {}
    /\ retry_limit = 0
    /\ self_stats = NewStats
    /\ retry_stats = NewStats
    /\ pc = "find_tests"
    /\ bucket = "none"
    /\ jobs = 0
    /\ pool = NoPool
    /\ running_jobs = {}
    /\ passes = 0
    /\ submitted = <<>>
    /\ passInputs = NoInputs
    /\ prevFailed = {}
    /\ call = NoCall
    /\ ret = 0
    /\ full_results = NoFullResults
    /\ trace = NoTrace
    /\ log = <<>>
    /\ collected = 0
    /\ joined = {}
    /\ printer = Printer(args.overwrite)
    /\ first_retries = 0
    /\ all_tests = <<>>

(***************************************************************************)
(* The current pass's TestSet, Stats and results.                          *)
(***************************************************************************)
CurSet == IF passes = 0 THEN test_set ELSE tests_to_retry

CurStats == IF passes = 0 THEN self_stats ELSE retry_stats

CurResults == IF passes = 0 THEN result_set ELSE retry_set

\* the list the current _run_list call works on
TestInputs == CurSet[bucket]

SetCurStats(st) ==
    IF passes = 0
    THEN self_stats' = st /\ UNCHANGED retry_stats
    ELSE retry_stats' = st /\ UNCHANGED self_stats

SetCurResults(rs) ==
    IF passes = 0
    THEN result_set' = rs /\ UNCHANGED retry_set
    ELSE retry_set' = rs /\ UNCHANGED result_set

SetCurSet(ts) ==
    IF passes = 0
    THEN test_set' = ts /\ UNCHANGED tests_to_retry
    ELSE tests_to_retry' = ts /\ UNCHANGED test_set

InputsAsGiven(ts) ==
    [parallel_tests |-> Names(ts.parallel_tests),
     isolated_tests |-> Names(ts.isolated_tests),
     tests_to_skip |-> Names(ts.tests_to_skip)]

(***************************************************************************)
(* Runner.run: discovery.                                                  *)
(***************************************************************************)
\* Runner.find_tests (lines 202-227): loaded is how many units were added
\* to the set when a load failed, len(names) when every load succeeded
FindTestsResult(a, names, loaded, context, setup_fn, teardown_fn) ==
    IF loaded < Len(names)
    THEN [ret |-> 1, test_set |-> NoTestSet, log |-> <<"Failed to load">>]
    ELSE [ret |-> 0,
          test_set |-> FindTestSet(a, names, context, setup_fn, teardown_fn),
          log |-> <<>>]

\* run's call of find_tests (lines 129-134)
FindTests ==
    /\ pc = "find_tests"
    /\ test_set = NoTestSet
    /\ \E loaded \in 0..Len(discovered) :
          LET found == FindTestsResult(args, discovered, loaded, "context",
                                       "setup_fn", "teardown_fn")
          IN  /\ test_set' = found.test_set
              /\ ret' = found.ret
              /\ log' = log \o found.log
              /\ pc' = IF found.ret = 0 THEN "run_tests" ELSE "tests_run"
    /\ discovered' = <<>>
    /\ UNCHANGED <<args, nDiscovered, tests_to_retry, result_set, retry_set,
                   failed_tests, retry_limit, self_stats, retry_stats, bucket,
                   jobs, pool, running_jobs, passes, submitted, passInputs,
                   prevFailed, call>>
    /\ UNCHANGED <<full_results, trace, collected, joined>>
    /\ UNCHANGED printVars

(***************************************************************************)
(* Runner._run_tests up to its call of _run_one_set, and _run_one_set up   *)
(* to its call of _skip_tests.                                             *)
(***************************************************************************)
RunTests ==
    /\ pc = "run_tests"
    /\ IF test_set.parallel_tests = <<>> /\ test_set.isolated_tests = <<>>
       THEN /\ pc' = "tests_run"
            /\ ret' = 1
            /\ log' = Append(log, "No tests to run.")
            /\ UNCHANGED <<self_stats, passInputs, all_tests>>
       ELSE /\ pc' = "skip_tests"
            /\ all_tests' = Names(SortInputs(test_set.parallel_tests
                                             \o test_set.isolated_tests
                                             \o test_set.tests_to_skip))
            /\ UNCHANGED <<ret, log>>
            /\ self_stats' =
                   [self_stats EXCEPT !.total = Len(test_set.parallel_tests)
                                                + Len(test_set.isolated_tests)
                                                + Len(test_set.tests_to_skip)]
            /\ passInputs' = InputsAsGiven(test_set)
    /\ UNCHANGED <<args, discovered, nDiscovered, test_set, tests_to_retry,
                   result_set, retry_set, failed_tests, retry_limit, retry_stats,
                   bucket, jobs, pool, running_jobs, passes, submitted,
                   prevFailed, call>>
    /\ UNCHANGED <<full_results, trace, collected, joined>>
    /\ UNCHANGED <<printer, first_retries>>

\* a skipped unit reported as passed
SkipResultAsPass(test_input) ==
    Result(test_input.name, "Pass", {"Pass"}, FALSE, 0, test_input.msg, "")

\* the Result _skip_tests makes for one unit (lines 350-353)
SkipResult(test_input) ==
    Result(test_input.name, "Skip", {"Skip"}, FALSE, 0, test_input.msg, "")

\* Runner._skip_tests: the whole loop
SkipTests ==
    /\ pc = "skip_tests"
    /\ LET skips == CurSet.tests_to_skip
       IN  /\ SetCurResults(CurResults \o
                            [i \in 1..Len(skips) |-> SkipResult(skips[i])])
           /\ SetCurStats([CurStats EXCEPT !.started = @ + Len(skips),
                                           !.finished = @ + Len(skips)])
    /\ pc' = "run_list"
    /\ bucket' = "parallel_tests"
    /\ UNCHANGED <<args, discovered, nDiscovered, test_set, tests_to_retry,
                   failed_tests, retry_limit, jobs, pool, running_jobs, passes,
                   submitted, passInputs, prevFailed, call>>
    /\ UNCHANGED <<reportVars, joined>>
    /\ UNCHANGED printVars

(***************************************************************************)
(* Runner._run_list(stats, result_set, test_set, test_inputs, jobs).       *)
(***************************************************************************)
\* the jobs argument of the current _run_list call (lines 339-342)
JobsArg == IF bucket = "parallel_tests" THEN args.jobs ELSE IsolatedJobs

\* lines 360-368: the local jobs, the early return, the pool
RunListStart ==
    /\ pc = "run_list"
    /\ LET j == Min(Len(TestInputs), JobsArg)
       IN  /\ jobs' = j
           /\ IF j = 0
              THEN pc' = "list_returned" /\ UNCHANGED pool
              ELSE pc' = "dispatch" /\ pool' = MakePool(j, Child(args, CurSet))
    /\ running_jobs' = {}
    /\ UNCHANGED <<args, discovered, nDiscovered, test_set, tests_to_retry,
                   result_set, retry_set, failed_tests, retry_limit, self_stats,
                   retry_stats, bucket, passes, submitted, passInputs,
                   prevFailed, call>>
    /\ UNCHANGED <<reportVars, joined>>
    /\ UNCHANGED printVars

\* the outer loop testing running_jobs alone
LoopRunsWhileRunning == running_jobs # {}

\* the outer loop testing test_inputs alone
LoopRunsWhileInputs == TestInputs # <<>>

\* the outer loop's condition (line 370)
LoopRuns == TestInputs # <<>> \/ running_jobs # {}

\* the inner loop's condition (line 371)
CanSend == TestInputs # <<>> /\ Cardinality(running_jobs) < args.jobs

\* lines 371-376: one turn of the inner loop
Send ==
    /\ pc = "dispatch"
    /\ LoopRuns
    /\ CanSend
    /\ LET test_input == Head(TestInputs)
       IN  /\ SetCurSet([CurSet EXCEPT ![bucket] = Tail(@)])
           /\ SetCurStats([CurStats EXCEPT !.started = @ + 1])
           /\ pool' = [pool EXCEPT !.msgs = Append(@, test_input.name)]
           /\ running_jobs' = running_jobs \cup {test_input.name}
           /\ submitted' = Append(submitted, [bucket |-> bucket,
                                              name |-> test_input.name])
    /\ UNCHANGED <<args, discovered, nDiscovered, result_set, retry_set,
                   failed_tests, retry_limit, pc, bucket, jobs, passes,
                   passInputs, prevFailed, call>>
    /\ UNCHANGED <<reportVars, joined>>
    /\ UNCHANGED printVars

\* lines 378-382: pool.get() returns a Result
Get ==
    /\ pc = "dispatch"
    /\ LoopRuns
    /\ ~CanSend
    /\ pool.resps # <<>>
    /\ Head(pool.resps).type = "Response"
    /\ LET result == Head(pool.resps).result
       IN  /\ running_jobs' = running_jobs \ {result.name}
           /\ SetCurResults(Append(CurResults, result))
           /\ SetCurStats([CurStats EXCEPT !.finished = @ + 1])
    /\ pool' = [pool EXCEPT !.resps = Tail(@)]
    /\ UNCHANGED <<args, discovered, nDiscovered, test_set, tests_to_retry,
                   failed_tests, retry_limit, pc, bucket, jobs, passes,
                   submitted, passInputs, prevFailed, call>>
    /\ UNCHANGED <<reportVars, joined>>
    /\ UNCHANGED printVars

\* line 378 when the worker's call raised: pool.get() raises, the finally
\* clause joins the pool and the exception leaves run
GetRaises ==
    /\ pc = "dispatch"
    /\ LoopRuns
    /\ ~CanSend
    /\ pool.resps # <<>>
    /\ Head(pool.resps).type = "Error"
    /\ pool' = NoPool
    /\ joined' = joined \cup JoinPool(pool)
    /\ pc' = "crashed"
    /\ UNCHANGED <<args, discovered, nDiscovered, test_set, tests_to_retry,
                   result_set, retry_set, failed_tests, retry_limit, self_stats,
                   retry_stats, bucket, jobs, running_jobs, passes, submitted,
                   passInputs, prevFailed, call>>
    /\ UNCHANGED reportVars
    /\ UNCHANGED printVars

\* lines 370, 383-385: the outer loop ends, the pool is closed and joined
ListReturn ==
    /\ pc = "dispatch"
    /\ ~LoopRuns
    /\ pool' = NoPool
    /\ joined' = joined \cup JoinPool(pool)
    /\ pc' = "list_returned"
    /\ UNCHANGED <<args, discovered, nDiscovered, test_set, tests_to_retry,
                   result_set, retry_set, failed_tests, retry_limit, self_stats,
                   retry_stats, bucket, jobs, running_jobs, passes, submitted,
                   passInputs, prevFailed, call>>
    /\ UNCHANGED reportVars
    /\ UNCHANGED printVars

(***************************************************************************)
(* The pool's workers.                                                     *)
(***************************************************************************)
\* a ready worker takes the next unit of the task channel
WorkerStart(w) ==
    /\ pool.workers[w].state = "ready"
    /\ pool.msgs # <<>>
    /\ pool' = [pool EXCEPT !.msgs = Tail(@),
                            !.workers[w] =
                                Worker("active", Head(pool.msgs),
                                       TestCaseContext(pool.workers[w].child),
                                       pool.workers[w].child)]
    /\ UNCHANGED <<args, discovered, nDiscovered, test_set, tests_to_retry,
                   result_set, retry_set, failed_tests, retry_limit, self_stats,
                   retry_stats, pc, bucket, jobs, running_jobs, passes,
                   submitted, passInputs, prevFailed, call>>
    /\ UNCHANGED <<reportVars, joined>>
    /\ UNCHANGED printVars

\* the worker's call of _run_one_test ends: its Result, or its exception,
\* goes to the response channel
WorkerFinish(w) ==
    /\ pool.workers[w].state = "active"
    /\ \E py3 \in BOOLEAN, load \in RunLoads, tr \in RunTestResults :
          LET r == RunOneTest(pool.workers[w].unit, py3, FALSE, load, tr)
          IN  pool' =
                  IF r.raised
                  THEN [pool EXCEPT !.workers[w] =
                                        Worker("dead", <<>>, NoContext,
                                               pool.workers[w].child),
                                    !.resps = Append(@, Response("Error", NoResult))]
                  ELSE [pool EXCEPT !.workers[w] =
                                        Worker("ready", <<>>, NoContext,
                                               pool.workers[w].child),
                                    !.resps = Append(@, Response("Response",
                                                                 r.result))]
    /\ UNCHANGED <<args, discovered, nDiscovered, test_set, tests_to_retry,
                   result_set, retry_set, failed_tests, retry_limit, self_stats,
                   retry_stats, pc, bucket, jobs, running_jobs, passes,
                   submitted, passInputs, prevFailed, call>>
    /\ UNCHANGED <<reportVars, joined>>
    /\ UNCHANGED printVars

(***************************************************************************)
(* After a _run_list call: the next list, or the end of the pass.          *)
(***************************************************************************)
\* _run_one_set's second _run_list call (lines 341-342)
NextList ==
    /\ pc = "list_returned"
    /\ bucket = "parallel_tests"
    /\ bucket' = "isolated_tests"
    /\ pc' = "run_list"
    /\ UNCHANGED <<args, discovered, nDiscovered, test_set, tests_to_retry,
                   result_set, retry_set, failed_tests, retry_limit, self_stats,
                   retry_stats, jobs, pool, running_jobs, passes, submitted,
                   passInputs, prevFailed, call>>
    /\ UNCHANGED <<reportVars, joined>>
    /\ UNCHANGED printVars

\* lines 284-285: the initial pass is over
InitialPassEnd ==
    /\ pc = "list_returned"
    /\ bucket = "isolated_tests"
    /\ passes = 0
    /\ failed_tests' = FailedTestNames(result_set)
    /\ retry_limit' = args.retry_limit
    /\ pc' = "retry_loop"
    /\ UNCHANGED <<args, discovered, nDiscovered, test_set, tests_to_retry,
                   result_set, retry_set, self_stats, retry_stats, bucket, jobs,
                   pool, running_jobs, passes, submitted, passInputs,
                   prevFailed, call>>
    /\ UNCHANGED <<reportVars, joined>>
    /\ UNCHANGED printVars

\* the test of line 288 holding in every turn of the loop
FirstRetryAlways(limit, a) == TRUE

\* line 288: this is the first turn of the retry loop
FirstRetry(limit, a) == limit = a.retry_limit

\* lines 287-308: the loop's test, and a retry pass up to _skip_tests
RetryStart ==
    /\ pc = "retry_loop"
    /\ retry_limit # 0 /\ failed_tests # {}
    /\ passes < MaxPasses
    /\ passes' = passes + 1
    /\ tests_to_retry' = RetryTestSet(failed_tests, test_set)
    /\ retry_stats' = [NewStats EXCEPT !.total = Cardinality(failed_tests)]
    /\ retry_set' = <<>>
    /\ passInputs' = InputsAsGiven(tests_to_retry')
    /\ prevFailed' = failed_tests
    /\ submitted' = <<>>
    /\ pc' = "skip_tests"
    /\ IF FirstRetry(retry_limit, args)
       THEN /\ first_retries' = first_retries + 1
            /\ args' = [args EXCEPT !.overwrite = FALSE,
                                    !.verbose = Min(@, 1)]
            /\ printer' = [printer EXCEPT !.should_overwrite = FALSE]
       ELSE UNCHANGED <<first_retries, args, printer>>
    /\ UNCHANGED <<discovered, nDiscovered, test_set, result_set,
                   failed_tests, retry_limit, self_stats, bucket, jobs, pool,
                   running_jobs, call>>
    /\ UNCHANGED <<reportVars, joined>>
    /\ UNCHANGED all_tests

\* lines 309-311: the retry pass is over
RetryPassEnd ==
    /\ pc = "list_returned"
    /\ bucket = "isolated_tests"
    /\ passes > 0
    /\ result_set' = ExtendResults(result_set, retry_set)
    /\ failed_tests' = FailedTestNames(retry_set)
    /\ retry_limit' = retry_limit - 1
    /\ pc' = "retry_loop"
    /\ UNCHANGED <<args, discovered, nDiscovered, test_set, tests_to_retry,
                   retry_set, self_stats, retry_stats, bucket, jobs, pool,
                   running_jobs, passes, submitted, passInputs, prevFailed,
                   call>>
    /\ UNCHANGED <<reportVars, joined>>
    /\ UNCHANGED printVars

\* line 287 false: the loop is left; lines 316-321
RetryLoopExit ==
    /\ pc = "retry_loop"
    /\ ~(retry_limit # 0 /\ failed_tests # {})
    /\ full_results' = MakeFullResults(result_set)
    /\ ret' = ExitCodeFromFullResults(full_results')
    /\ pc' = "tests_run"
    /\ UNCHANGED <<args, discovered, nDiscovered, test_set, tests_to_retry,
                   result_set, retry_set, failed_tests, retry_limit, self_stats,
                   retry_stats, bucket, jobs, pool, running_jobs, passes,
                   submitted, passInputs, prevFailed, call>>
    /\ UNCHANGED <<trace, log, collected, joined>>
    /\ UNCHANGED printVars

Next ==
    \/ FindTests
    \/ RunTests
    \/ SkipTests
    \/ RunListStart
    \/ Send
    \/ Get
    \/ GetRaises
    \/ ListReturn
    \/ \E w \in 1..Len(pool.workers) : WorkerStart(w)
    \/ \E w \in 1..Len(pool.workers) : WorkerFinish(w)
    \/ NextList
    \/ InitialPassEnd
    \/ RetryStart
    \/ RetryPassEnd
    \/ RetryLoopExit

Spec == Init /\ [][Next]_vars

(***************************************************************************)
(* Runner.run(test_set): the caller supplies the TestSet, in any order.    *)
(***************************************************************************)
\* the lists of TestInputs with the names of s
InputsNamed(s) == [i \in 1..Len(s) |-> TestInput(s[i], "")]

\* the TestSets a caller can build: TestSet.__init__ (lines 48-64) keeps
\* the lists as they are given
SuppliedTestSets ==
    { TestSet(InputsNamed(p), InputsNamed(i), InputsNamed(k),
              "context", "setup_fn", "teardown_fn") :
        p \in Discoveries, i \in Discoveries, k \in Discoveries }

\* the names of the three lists of a TestSet
AllNamesOf(ts) ==
    Names(ts.parallel_tests) \o Names(ts.isolated_tests)
    \o Names(ts.tests_to_skip)

\* line 129 when run was given a test_set: find_tests is not called
UseTestSet ==
    /\ pc = "find_tests"
    /\ test_set # NoTestSet
    /\ pc' = "run_tests"
    /\ UNCHANGED <<args, discovered, nDiscovered, test_set, tests_to_retry,
                   result_set, retry_set, failed_tests, retry_limit, self_stats,
                   retry_stats, bucket, jobs, pool, running_jobs, passes,
                   submitted, passInputs, prevFailed, call>>
    /\ UNCHANGED <<reportVars, joined>>
    /\ UNCHANGED printVars

InitSupplied ==
    /\ args \in { a \in ArgsValues : /\ a.jobs >= 1
                                      /\ a.retry_limit >= 0
                                      /\ a.skip = <<>>
                                      /\ a.isolate = <<>> }
    /\ discovered = <<>>
    /\ nDiscovered = 0
    /\ test_set \in { ts \in SuppliedTestSets :
                        /\ ts # NoTestSet
                        /\ Len(AllNamesOf(ts)) <= MaxUnits
                        /\ \A x, y \in 1..Len(AllNamesOf(ts)) :
                              x # y => AllNamesOf(ts)[x] # AllNamesOf(ts)[y] }
    /\ tests_to_retry = NoTestSet
    /\ result_set = <<>>
    /\ retry_set = <<>>
    /\ failed_tests = {}
    /\ retry_limit = 0
    /\ self_stats = NewStats
    /\ retry_stats = NewStats
    /\ pc = "find_tests"
    /\ bucket = "none"
    /\ jobs = 0
    /\ pool = NoPool
    /\ running_jobs = {}
    /\ passes = 0
    /\ submitted = <<>>
    /\ passInputs = NoInputs
    /\ prevFailed = {}
    /\ call = NoCall
    /\ ret = 0
    /\ full_results = NoFullResults
    /\ trace = NoTrace
    /\ log = <<>>
    /\ collected = 0
    /\ joined = {}
    /\ printer = Printer(args.overwrite)
    /\ first_retries = 0
    /\ all_tests = <<>>

NextSupplied ==
    \/ UseTestSet
    \/ RunTests
    \/ SkipTests
    \/ RunListStart
    \/ Send
    \/ Get
    \/ GetRaises
    \/ ListReturn
    \/ \E w \in 1..Len(pool.workers) : WorkerStart(w)
    \/ \E w \in 1..Len(pool.workers) : WorkerFinish(w)
    \/ NextList
    \/ InitialPassEnd
    \/ RetryStart
    \/ RetryPassEnd
    \/ RetryLoopExit

SpecSupplied == InitSupplied /\ [][NextSupplied]_vars

(***************************************************************************)
(* Runner.main: the command line is parsed, run is called, run reports.    *)
(***************************************************************************)
\* main up to the call of run (lines 87-94), and run's first lines
Main ==
    /\ pc = "main"
    /\ \E py3 \in BOOLEAN :
          LET parsed == ParseArgs(args, py3)
          IN  /\ args' = parsed.rargs
              /\ IF parsed.exit_status # <<>>
                 THEN /\ pc' = "exited"
                      /\ ret' = parsed.exit_status[1]
                      /\ UNCHANGED printer
                 ELSE /\ pc' = "find_tests"
                      /\ ret' = 0
                      /\ printer' = Printer(parsed.rargs.overwrite)
    /\ UNCHANGED <<discovered, nDiscovered, test_set, tests_to_retry,
                   result_set, retry_set, failed_tests, retry_limit, self_stats,
                   retry_stats, bucket, jobs, pool, running_jobs, passes,
                   submitted, passInputs, prevFailed, call>>
    /\ UNCHANGED <<full_results, trace, log, collected, joined>>
    /\ UNCHANGED <<first_retries, all_tests>>

\* run from line 142 to its return: the trace, and, with full results, the
\* results file, the upload and the trace file
Report ==
    /\ pc = "tests_run"
    /\ IF TraceRaises(args.metadata)
       THEN /\ pc' = "trace_raised"
            /\ UNCHANGED <<ret, trace, log>>
       ELSE /\ trace' = TraceFromResults(args.metadata, result_set)
            /\ pc' = "returned"
            /\ IF full_results.made
               THEN \E fetch_ok \in BOOLEAN :
                      /\ ret' = RunRet(ret, UploadResults(args, fetch_ok).ret)
                      /\ log' = log \o ReportLog(args, fetch_ok)
               ELSE UNCHANGED <<ret, log>>
    /\ UNCHANGED <<args, discovered, nDiscovered, test_set, tests_to_retry,
                   result_set, retry_set, failed_tests, retry_limit, self_stats,
                   retry_stats, bucket, jobs, pool, running_jobs, passes,
                   submitted, passInputs, prevFailed, call>>
    /\ UNCHANGED <<full_results, collected, joined>>
    /\ UNCHANGED printVars

\* where a KeyboardInterrupt can reach run
RunPcs ==
    {"find_tests", "run_tests", "skip_tests", "run_list", "dispatch",
     "list_returned", "retry_loop", "tests_run"}

\* a KeyboardInterrupt is raised in run: _run_list's finally joins the pool,
\* run's frame and its locals are dropped, main returns 130 (lines 96-98)
Interrupt ==
    /\ pc \in RunPcs
    /\ collected' = Len(result_set)
    /\ joined' = joined \cup JoinPool(pool)
    /\ pool' = NoPool
    /\ test_set' = NoTestSet
    /\ tests_to_retry' = NoTestSet
    /\ result_set' = <<>>
    /\ retry_set' = <<>>
    /\ failed_tests' = {}
    /\ retry_limit' = 0
    /\ retry_stats' = NewStats
    /\ bucket' = "none"
    /\ jobs' = 0
    /\ running_jobs' = {}
    /\ full_results' = NoFullResults
    /\ log' = Append(log, "interrupted, exiting")
    /\ ret' = 130
    /\ all_tests' = <<>>
    /\ pc' = "returned"
    /\ UNCHANGED <<args, discovered, nDiscovered, self_stats, passes,
                   submitted, passInputs, prevFailed, call, trace>>
    /\ UNCHANGED <<printer, first_retries>>

InitMain ==
    /\ args \in MainArgv
    /\ discovered \in Discoveries
    /\ nDiscovered = Len(discovered)
    /\ test_set = NoTestSet
    /\ tests_to_retry = NoTestSet
    /\ result_set = <<>>
    /\ retry_set = <<>>
    /\ failed_tests = {}
    /\ retry_limit = 0
    /\ self_stats = NewStats
    /\ retry_stats = NewStats
    /\ pc = "main"
    /\ bucket = "none"
    /\ jobs = 0
    /\ pool = NoPool
    /\ running_jobs = {}
    /\ passes = 0
    /\ submitted = <<>>
    /\ passInputs = NoInputs
    /\ prevFailed = {}
    /\ call = NoCall
    /\ ret = 0
    /\ full_results = NoFullResults
    /\ trace = NoTrace
    /\ log = <<>>
    /\ collected = 0
    /\ joined = {}
    /\ printer = NoPrinter
    /\ first_retries = 0
    /\ all_tests = <<>>

NextMain ==
    \/ Main
    \/ FindTests
    \/ RunTests
    \/ SkipTests
    \/ RunListStart
    \/ Send
    \/ Get
    \/ GetRaises
    \/ ListReturn
    \/ \E w \in 1..Len(pool.workers) : WorkerStart(w)
    \/ \E w \in 1..Len(pool.workers) : WorkerFinish(w)
    \/ NextList
    \/ InitialPassEnd
    \/ RetryStart
    \/ RetryPassEnd
    \/ RetryLoopExit
    \/ Report
    \/ Interrupt

SpecMain == InitMain /\ [][NextMain]_vars

(***************************************************************************)
(* parse_args on its own: the command line is drawn at the start, the      *)
(* parse is one step.                                                      *)
(***************************************************************************)
InitParse ==
    /\ args \in ParseArgv
    /\ discovered = <<>>
    /\ nDiscovered = 0
    /\ test_set = NoTestSet
    /\ tests_to_retry = NoTestSet
    /\ result_set = <<>>
    /\ retry_set = <<>>
    /\ failed_tests = {}
    /\ retry_limit = 0
    /\ self_stats = NewStats
    /\ retry_stats = NewStats
    /\ pc = "main"
    /\ bucket = "none"
    /\ jobs = 0
    /\ pool = NoPool
    /\ running_jobs = {}
    /\ passes = 0
    /\ submitted = <<>>
    /\ passInputs = NoInputs
    /\ prevFailed = {}
    /\ call = NoCall
    /\ ret = 0
    /\ full_results = NoFullResults
    /\ trace = NoTrace
    /\ log = <<>>
    /\ collected = 0
    /\ joined = {}
    /\ printer = NoPrinter
    /\ first_retries = 0
    /\ all_tests = <<>>

NextParse == Main

SpecParse == InitParse /\ [][NextParse]_vars

(***************************************************************************)
(* One call of _run_one_test on its own: the inputs are drawn at the       *)
(* start, the call is one step.                                            *)
(***************************************************************************)
Calls ==
    [test_name : AllNames, py3 : BOOLEAN, dry_run : BOOLEAN, load : Loads,
     tr : TestResults, done : {FALSE}, ret : {Raised}]

InitChild ==
    /\ call \in Calls
    /\ args \in { a \in ArgsValues : a.jobs = 1 /\ a.retry_limit = 0
                                     /\ a.skip = <<>> /\ a.isolate = <<>> }
    /\ discovered = <<>>
    /\ nDiscovered = 0
    /\ test_set = NoTestSet
    /\ tests_to_retry = NoTestSet
    /\ result_set = <<>>
    /\ retry_set = <<>>
    /\ failed_tests = {}
    /\ retry_limit = 0
    /\ self_stats = NewStats
    /\ retry_stats = NewStats
    /\ pc = "child"
    /\ bucket = "none"
    /\ jobs = 0
    /\ pool = NoPool
    /\ running_jobs = {}
    /\ passes = 0
    /\ submitted = <<>>
    /\ passInputs = NoInputs
    /\ prevFailed = {}
    /\ ret = 0
    /\ full_results = NoFullResults
    /\ trace = NoTrace
    /\ log = <<>>
    /\ collected = 0
    /\ joined = {}
    /\ printer = Printer(args.overwrite)
    /\ first_retries = 0
    /\ all_tests = <<>>

\* the worker calls _run_one_test(child, test_input)
ChildRunOneTest ==
    /\ pc = "child"
    /\ ~call.done
    /\ call' = [call EXCEPT !.done = TRUE,
                            !.ret = RunOneTest(call.test_name, call.py3,
                                               call.dry_run, call.load, call.tr)]
    /\ UNCHANGED <<args, discovered, nDiscovered, test_set, tests_to_retry,
                   result_set, retry_set, failed_tests, retry_limit, self_stats,
                   retry_stats, pc, bucket, jobs, pool, running_jobs, passes,
                   submitted, passInputs, prevFailed>>
    /\ UNCHANGED <<reportVars, joined>>
    /\ UNCHANGED printVars

\* the runner's _skip_tests (lines 344-356) making the Result of the unit
\* when the unit is one to skip
ChildSkipTest ==
    /\ pc = "child"
    /\ result_set = <<>>
    /\ result_set' =
           <<SkipResult(TestInput(call.test_name, "skipped by request"))>>
    /\ UNCHANGED <<args, discovered, nDiscovered, test_set, tests_to_retry,
                   retry_set, failed_tests, retry_limit, self_stats,
                   retry_stats, pc, bucket, jobs, pool, running_jobs, passes,
                   submitted, passInputs, prevFailed, call>>
    /\ UNCHANGED <<reportVars, joined>>
    /\ UNCHANGED printVars

NextChild ==
    \/ ChildRunOneTest
    \/ ChildSkipTest

SpecChild == InitChild /\ [][NextChild]_vars

(***************************************************************************)
(* _load_via_load_tests(child, test_name), one turn of its while loop at   *)
(* a time.  The prefix of k components is what[k]: whether                  *)
(* child.loaded_suites already holds it, and the suite it holds or gets:   *)
(* "None" (the import raised ImportError), "no_match" (a suite with no     *)
(* test case of that id), "match" (a suite with one), or "raises" (the     *)
(* import, the load or the assert of line 763 raised).                     *)
(***************************************************************************)
Suites == {"None", "no_match", "match", "raises"}

Prefixes ==
    { x \in [cached : BOOLEAN, suite : Suites] :
        x.cached => x.suite # "raises" }

LoadCalls ==
    UNION { [what : [1..n -> Prefixes], comps : {n}, new_suite : {0},
             tried : {<<>>}, done : {FALSE}, raised : {FALSE}] :
            n \in 1..MaxComps }

InitLoad ==
    /\ call \in LoadCalls
    /\ args \in { a \in ArgsValues : a.jobs = 1 /\ a.retry_limit = 0
                                     /\ a.skip = <<>> /\ a.isolate = <<>> }
    /\ discovered = <<>>
    /\ nDiscovered = 0
    /\ test_set = NoTestSet
    /\ tests_to_retry = NoTestSet
    /\ result_set = <<>>
    /\ retry_set = <<>>
    /\ failed_tests = {}
    /\ retry_limit = 0
    /\ self_stats = NewStats
    /\ retry_stats = NewStats
    /\ pc = "load"
    /\ bucket = "none"
    /\ jobs = 0
    /\ pool = NoPool
    /\ running_jobs = {}
    /\ passes = 0
    /\ submitted = <<>>
    /\ passInputs = NoInputs
    /\ prevFailed = {}
    /\ ret = 0
    /\ full_results = NoFullResults
    /\ trace = NoTrace
    /\ log = <<>>
    /\ collected = 0
    /\ joined = {}
    /\ printer = Printer(args.overwrite)
    /\ first_retries = 0
    /\ all_tests = <<>>

\* lines 748-767: one turn of the while loop, for the prefix of comps
\* components
LoadTurn ==
    /\ pc = "load"
    /\ ~call.done
    /\ call.comps > 0
    /\ LET k == call.comps
           suite == call.what[k].suite
       IN  call' =
               IF suite = "raises"
               THEN [call EXCEPT !.done = TRUE, !.raised = TRUE,
                                 !.tried = Append(@, k)]
               ELSE [call EXCEPT !.what[k].cached = TRUE,
                                 !.tried = Append(@, k),
                                 !.new_suite = IF suite = "match" THEN @ + 1
                                               ELSE @,
                                 !.comps = k - 1]
    /\ UNCHANGED <<args, discovered, nDiscovered, test_set, tests_to_retry,
                   result_set, retry_set, failed_tests, retry_limit, self_stats,
                   retry_stats, pc, bucket, jobs, pool, running_jobs, passes,
                   submitted, passInputs, prevFailed>>
    /\ UNCHANGED <<reportVars, joined>>
    /\ UNCHANGED printVars

\* lines 748, 768: comps is empty, new_suite is returned
LoadReturn ==
    /\ pc = "load"
    /\ ~call.done
    /\ call.comps = 0
    /\ call' = [call EXCEPT !.done = TRUE]
    /\ UNCHANGED <<args, discovered, nDiscovered, test_set, tests_to_retry,
                   result_set, retry_set, failed_tests, retry_limit, self_stats,
                   retry_stats, pc, bucket, jobs, pool, running_jobs, passes,
                   submitted, passInputs, prevFailed>>
    /\ UNCHANGED <<reportVars, joined>>
    /\ UNCHANGED printVars

NextLoad ==
    \/ LoadTurn
    \/ LoadReturn

SpecLoad == InitLoad /\ [][NextLoad]_vars

(***************************************************************************)
(* The claims.                                                             *)
(***************************************************************************)
IsPrefix(s, t) == Len(s) <= Len(t) /\ SubSeq(t, 1, Len(s)) = s

\* where the Results of the current _run_list call start in CurResults
ListBase ==
    Len(passInputs.tests_to_skip)
    + (IF bucket = "isolated_tests" THEN Len(passInputs.parallel_tests) ELSE 0)

\* C1: when a _run_list call returns in a run with jobs >= 1, each unit of
\* its list was sent to the pool exactly once and has exactly one Result in
\* the result collection, and the list and running_jobs are empty.
C1_RunListRunsEachUnitOnce ==
    (pc = "list_returned" /\ args.jobs >= 1) =>
        LET units == passInputs[bucket]
        IN  /\ TestInputs = <<>>
            /\ running_jobs = {}
            /\ Len(CurResults) = ListBase + Len(units)
            /\ Cardinality({ k \in 1..Len(submitted) :
                               submitted[k].bucket = bucket }) = Len(units)
            /\ \A i \in 1..Len(units) :
                 /\ Cardinality({ k \in 1..Len(submitted) :
                        submitted[k] = [bucket |-> bucket, name |-> units[i]] }) = 1
                 /\ Cardinality({ k \in (ListBase + 1)..Len(CurResults) :
                        CurResults[k].name = units[i] }) = 1

\* C1's case: a parallel list of two units, run with two jobs, has returned
C1_Witness ==
    /\ pc = "list_returned"
    /\ bucket = "parallel_tests"
    /\ args.jobs = 2
    /\ Len(passInputs.parallel_tests) = 2

\* C2: while a _run_list call dispatches (in a run with jobs >= 1), the units
\* sent to the pool whose Result has not been received number at most
\* min(jobs, len(units)), jobs being the argument of the call.
C2_InFlightAtMostMinJobs ==
    (pc = "dispatch" /\ args.jobs >= 1) =>
        InFlight <= Min(JobsArg, Len(passInputs[bucket]))

\* C3: while the isolated list is dispatched the pool has one worker and at
\* most one unit is being executed.
C3_IsolatedIsSerial ==
    (pc = "dispatch" /\ bucket = "isolated_tests") =>
        /\ pool.size = 1
        /\ Cardinality(Active) <= 1

\* C3's case: an isolated unit is executing while another one, already sent,
\* waits for the worker
C3_Witness ==
    /\ pc = "dispatch"
    /\ bucket = "isolated_tests"
    /\ Cardinality(Active) = 1
    /\ pool.msgs # <<>>

\* the states of a pass after its _skip_tests call
AfterSkipTests == pc \in {"run_list", "dispatch", "list_returned", "crashed"}

\* C4: once _skip_tests has run, and whenever a unit has been sent to a pool,
\* the pass's results start with one Skip Result per unit of the skip list,
\* in the list's order, no other Result bears the name of a skip unit, and no
\* skip unit has been sent to a pool.
C4_SkipsComeFirst ==
    (AfterSkipTests \/ submitted # <<>>) =>
        LET skips == passInputs.tests_to_skip
        IN  /\ Len(CurResults) >= Len(skips)
            /\ \A i \in 1..Len(skips) :
                 /\ CurResults[i].name = skips[i]
                 /\ CurResults[i].actual = "Skip"
            /\ \A i \in (Len(skips) + 1)..Len(CurResults) :
                 CurResults[i].name \notin Range(skips)
            /\ \A k \in 1..Len(submitted) :
                 submitted[k].name \notin Range(skips)

\* C4's case: a pass with a skipped unit has sent a unit to the pool
C4_Witness ==
    /\ submitted # <<>>
    /\ passInputs.tests_to_skip # <<>>
    /\ passes = 0
    /\ result_set[1].actual = "Skip"

\* the bucket the precedence skip, isolate, parallel gives a name
BucketOf(name) ==
    IF \E i \in 1..Len(args.skip) : FnMatch(name, args.skip[i])
    THEN "tests_to_skip"
    ELSE IF \E i \in 1..Len(args.isolate) : FnMatch(name, args.isolate[i])
    THEN "isolated_tests"
    ELSE "parallel_tests"

Buckets == {"parallel_tests", "isolated_tests", "tests_to_skip"}

\* C5: find_tests puts each discovered unit in exactly the bucket the
\* precedence gives it, a skipped unit with the message 'skipped by request';
\* the bucket sizes sum to the number of discovered units and no name is in
\* two buckets.
C5_ClassifierPartitions ==
    [][(pc = "find_tests" /\ pc' = "run_tests") =>
        /\ Len(test_set'.parallel_tests) + Len(test_set'.isolated_tests)
             + Len(test_set'.tests_to_skip) = Len(discovered)
        /\ \A i \in 1..Len(discovered) : \A b \in Buckets :
             (discovered[i] \in Range(Names(test_set'[b])))
                 <=> (b = BucketOf(discovered[i]))
        /\ \A i \in 1..Len(test_set'.tests_to_skip) :
             test_set'.tests_to_skip[i].msg = "skipped by request"
        /\ \A b \in Buckets : Range(Names(test_set'[b])) \subseteq Range(discovered)
      ]_vars

\* C5's case: a unit that matches a skip glob and an isolate glob was
\* classified, beside a unit of another bucket
C5_Witness ==
    /\ pc = "run_tests"
    /\ \E i \in 1..Len(test_set.tests_to_skip) :
          Matches(test_set.tests_to_skip[i].name, args.isolate)
    /\ test_set.isolated_tests # <<>>

\* C6: a retry pass runs only while the counter is positive, and the retry
\* passes never outnumber the configured retry_limit.
C6_RetriesWithinLimit ==
    passes > 0 =>
        /\ passes <= args.retry_limit
        /\ (pc \in {"skip_tests", "run_list", "dispatch", "list_returned"}
              => retry_limit > 0)

\* C7: a retry pass is given exactly the names that failed in the pass before
\* it, sorted, all in the isolated list, with the context and hooks of the
\* initial TestSet; and the names that failed in a retry pass are among those
\* that failed in the pass before it.
C7_RetryRunsTheFailed ==
    [][ /\ (passes' = passes + 1) =>
             LET before == IF passes = 0 THEN result_set ELSE retry_set
                 names == Names(tests_to_retry'.isolated_tests)
             IN  /\ Range(names) = FailedTestNames(before)
                 /\ Len(names) = Cardinality(FailedTestNames(before))
                 /\ IsSorted(names)
                 /\ tests_to_retry'.parallel_tests = <<>>
                 /\ tests_to_retry'.tests_to_skip = <<>>
                 /\ tests_to_retry'.context = test_set.context
                 /\ tests_to_retry'.setup_fn = test_set.setup_fn
                 /\ tests_to_retry'.teardown_fn = test_set.teardown_fn
        /\ (passes > 0 /\ pc = "list_returned" /\ pc' = "retry_loop") =>
             failed_tests' \subseteq failed_tests
      ]_vars

\* C7's case: two units were retried, one failed again and one did not
C7_Witness ==
    /\ pc = "retry_loop"
    /\ passes >= 1
    /\ Cardinality(prevFailed) = 2
    /\ Cardinality(failed_tests) = 1

\* C8: the result collection only grows at its end: every step leaves the
\* Results it held in place and unchanged.
C8_ResultsAppendOnly ==
    [][IsPrefix(result_set, result_set')]_vars

\* C8's case: a unit's Failure is followed by its Pass from a retry, and the
\* Pass is the unit's last Result
C8_Witness ==
    /\ passes >= 1
    /\ \E i, j \in 1..Len(result_set) :
          /\ i < j
          /\ result_set[i].name = result_set[j].name
          /\ result_set[i].actual = "Failure"
          /\ result_set[j].actual = "Pass"
          /\ \A k \in (j + 1)..Len(result_set) :
                result_set[k].name # result_set[j].name

\* the call resolved its name to exactly one unit and ran it
CallRanTheUnit ==
    /\ call.done
    /\ call.load.kind # "fallback_raises"
    /\ call.load.n = 1
    /\ ~call.dry_run

Outcome(r) == <<r.actual, r.expected, r.unexpected, r.code>>

\* C9: the Result of a unit that ran follows the first rule that matches:
\* failure or error, skip, expected failure, unexpected success, pass.
C9_ResultPrecedence ==
    CallRanTheUnit =>
        LET tr == call.tr
            r == call.ret.result
        IN  /\ ~call.ret.raised
            /\ r.name = call.test_name
            /\ (tr.failures \/ tr.errors)
                 => Outcome(r) = <<"Failure", {"Pass"}, TRUE, 1>>
            /\ (~tr.failures /\ ~tr.errors /\ tr.skipped)
                 => Outcome(r) = <<"Skip", {"Skip"}, FALSE, 0>>
            /\ (~tr.failures /\ ~tr.errors /\ ~tr.skipped /\ tr.expectedFailures)
                 => Outcome(r) = <<"Failure", {"Failure"}, FALSE, 1>>
            /\ (~tr.failures /\ ~tr.errors /\ ~tr.skipped /\ ~tr.expectedFailures
                  /\ tr.unexpectedSuccesses)
                 => Outcome(r) = <<"Pass", {"Failure"}, TRUE, 0>>
            /\ (tr = EmptyTestResult)
                 => Outcome(r) = <<"Pass", {"Pass"}, FALSE, 0>>

\* C9's case: a unit with an error, a skip and an unexpected success recorded
\* was reported as a Failure
C9_Witness ==
    /\ CallRanTheUnit
    /\ ~call.tr.failures /\ call.tr.errors /\ call.tr.skipped
    /\ call.tr.unexpectedSuccesses
    /\ call.ret.result.actual = "Failure"

\* C10: a call whose name resolved, directly or through the fallback, to zero
\* or several units returns a Failure Result with unexpected true and code 1
\* and an error message, with the output restored; it does not raise.
C10_WrongCardinalityIsAFailure ==
    (call.done /\ call.load.kind \in {"direct", "fallback"} /\ call.load.n # 1) =>
        /\ ~call.ret.raised
        /\ call.ret.result.actual = "Failure"
        /\ call.ret.result.unexpected
        /\ call.ret.result.code = 1
        /\ call.ret.result.err = "failed to load"
        /\ call.ret.restores = call.ret.captures

\* C11: every _run_one_test call returns a Result for the unit it was given,
\* whatever the load did (direct, fallback, wrong cardinality) and whatever
\* the test recorded: it never raises into the pool.
C11_EveryCallReturnsAResult ==
    call.done =>
        /\ ~call.ret.raised
        /\ call.ret.result.name = call.test_name
        /\ call.ret.restores = call.ret.captures

\* run has returned after it executed units and made the full results
RanUnits == pc = "returned" /\ full_results.made

\* the upload of the results was attempted and failed
UploadFailed ==
    \E i \in 1..Len(log) : log[i] = "Uploading the JSON results raised"

\* C12 as stated: when a run that executed units returns, its exit code is 0
\* if and only if no unit's final outcome is an unexpected failure, and 1
\* otherwise.
C12_ExitCodeIffNoUnexpectedFailure ==
    RanUnits =>
        /\ ret \in {0, 1}
        /\ ret = 0 <=> UnexpectedFailures(result_set) = {}

\* C12, amended: when a run that executed units returns, its exit code is 0
\* if and only if no unit's final outcome is an unexpected failure and the
\* upload of the results did not fail, and 1 otherwise; a Result with code 1
\* that a later Result of the same unit supersedes does not count.
C12_ExitCodeIffNoFailureAndUploaded ==
    RanUnits =>
        /\ ret \in {0, 1}
        /\ ret = 0 <=> (UnexpectedFailures(result_set) = {} /\ ~UploadFailed)
        /\ full_results.num_failures = Cardinality(UnexpectedFailures(result_set))

\* C12's case: a unit failed and passed when retried, so that no final
\* outcome is a failure though a Result has code 1, and the upload failed:
\* the exit code is 1
C12_Witness ==
    /\ RanUnits
    /\ UnexpectedFailures(result_set) = {}
    /\ \E i \in 1..Len(result_set) : result_set[i].code = 1
    /\ UploadFailed
    /\ ret = 1

\* the log has the entry e
Logged(e) == \E i \in 1..Len(log) : log[i] = e

\* where the entry e is in the log, 0 if it is not there
LogIndex(e) ==
    IF Logged(e) THEN CHOOSE i \in 1..Len(log) : log[i] = e ELSE 0

\* run was left by a KeyboardInterrupt
Interrupted == Logged("interrupted, exiting")

\* nothing was dispatched, no Result exists, nothing was written or uploaded
NothingRanOrWritten ==
    /\ pool = NoPool
    /\ joined = {}
    /\ submitted = <<>>
    /\ result_set = <<>>
    /\ retry_set = <<>>
    /\ ~full_results.made
    /\ ~Logged("write_full_results")
    /\ ~Logged("write_trace")
    /\ ~Logged("fetch")

\* C13: a run whose work set has no unit to run in parallel or in isolation
\* prints 'No tests to run.' and returns 1; it makes no pool and no Result,
\* writes no file and uploads nothing.
C13_NoTestsReturnsOne ==
    (Logged("No tests to run.") /\ ~Interrupted) =>
        /\ pc \in {"tests_run", "returned"}
        /\ ret = 1
        /\ NothingRanOrWritten

\* C14: when a load fails during discovery, find_tests returns 1 and no work
\* set, and run returns 1 with no unit dispatched and no Result made, the
\* units discovered before the failure included.
C14_LoadFailureReturnsOne ==
    (Logged("Failed to load") /\ ~Interrupted) =>
        /\ pc \in {"tests_run", "returned"}
        /\ ret = 1
        /\ test_set = NoTestSet
        /\ NothingRanOrWritten

\* the command line has a metadata entry without '=' or a results server
\* without its builder name, master name and test type
Misconfigured ==
    \/ \E i \in 1..Len(args.metadata) : ~Contains(args.metadata[i], "=")
    \/ args.test_results_server
         /\ ~(args.builder_name /\ args.master_name /\ args.test_type)

\* C15: once a misconfigured command line is parsed, main has returned 2
\* and run was never called: nothing was discovered, dispatched or written.
C15_MisconfiguredExitsWithTwo ==
    (pc # "main" /\ Misconfigured) =>
        /\ pc = "exited"
        /\ ret = 2
        /\ Len(discovered) = nDiscovered
        /\ test_set = NoTestSet
        /\ ~trace.made
        /\ log = <<>>
        /\ NothingRanOrWritten

\* C15's case: main has returned for a command line with a metadata entry
\* that lacks '=' and a unit to discover
C15_Witness ==
    /\ pc = "exited"
    /\ \E i \in 1..Len(args.metadata) : ~Contains(args.metadata[i], "=")
    /\ nDiscovered > 0

\* C16: _trace_from_results never fails in a run, every metadata entry of a
\* run being one the parser accepted.
C16_TraceNeverFails == pc # "trace_raised"

\* C17: when a KeyboardInterrupt ends run, main returns 130 and the Results
\* collected until then are still there.
C17_InterruptKeepsResults ==
    Interrupted =>
        /\ pc = "returned"
        /\ ret = 130
        /\ Len(result_set) = collected

\* C18: after a failed upload run returns 1; the results file, when one is
\* written, was written before the upload was attempted, and the trace
\* file, when one is written, is written after the failure.
C18_FailedUploadKeepsArtifacts ==
    UploadFailed =>
        /\ pc = "returned"
        /\ ret = 1
        /\ args.write_full_results_to =>
             /\ Logged("write_full_results")
             /\ LogIndex("write_full_results") < LogIndex("fetch")
        /\ args.write_trace_to =>
             /\ Logged("write_trace")
             /\ LogIndex("write_trace")
                  > LogIndex("Uploading the JSON results raised")

\* C18's case: every unit passed, both files are written and the upload
\* failed
C18_Witness ==
    /\ UploadFailed
    /\ UnexpectedFailures(result_set) = {}
    /\ result_set # <<>>
    /\ args.write_full_results_to
    /\ args.write_trace_to

\* what the setup of a child made of its context
SetUp(child) ==
    IF child.setup_fn # "None"
    THEN [from |-> child.setup_fn, context |-> child.context]
    ELSE [from |-> "context", context |-> child.context]

\* C19: every worker of the pool has run its setup once and its teardown
\* not yet, and the unit it runs sees the context that setup made; every
\* worker of a joined pool has run its setup once and its teardown once,
\* the teardown hook getting the context the setup made.
C19_SetupAndTeardownOncePerWorker ==
    /\ \A w \in 1..Len(pool.workers) :
         LET worker == pool.workers[w]
         IN  /\ worker.child.setups = 1
             /\ worker.child.teardowns = 0
             /\ worker.child.worker_num = w
             /\ worker.child.context_after_setup = SetUp(worker.child)
             /\ worker.state = "active" => worker.context = SetUp(worker.child)
    /\ \A child \in joined :
         /\ child.setups = 1
         /\ child.teardowns = 1
         /\ child.context_after_setup = SetUp(child)
         /\ child.teardown_context = SetUp(child)

\* C19's case: the isolated list of two units, the only list of the run, was
\* run by one worker, and its pool was joined
C19_Witness ==
    /\ pc = "list_returned"
    /\ bucket = "isolated_tests"
    /\ passes = 0
    /\ passInputs.parallel_tests = <<>>
    /\ Len(passInputs.isolated_tests) = 2
    /\ Len(result_set) = 2
    /\ \E child \in joined : child.teardowns = 1 /\ child.setup_fn = "setup_fn"

\* C20: in a run whose command line was accepted, passthrough is on only
\* when the jobs value used for dispatch is 1.
C20_PassthroughIsSerial ==
    (pc = "find_tests" /\ args.passthrough) => args.jobs = 1

(***************************************************************************)
(* C21..C30.                                                               *)
(***************************************************************************)
\* C21: within each bucket of a pass, units are submitted to the pool in
\* ascending order of unit name, for every work set the run executes,
\* discovered or supplied by the caller.
C21_SubmittedInNameOrder ==
    \A i, j \in 1..Len(submitted) :
        (i < j /\ submitted[i].bucket = submitted[j].bucket)
            => NameLess(submitted[i].name, submitted[j].name)

\* the units sent to the pool whose Result the runner has not received
UnitsOut ==
    Range(pool.msgs)
    \cup { pool.workers[w].unit : w \in Active }
    \cup { pool.resps[i].result.name :
             i \in { k \in 1..Len(pool.resps) : pool.resps[k].type = "Response" } }

\* the names of the Results in results
ResultNames(results) == { results[i].name : i \in 1..Len(results) }

\* C22: passes are strictly phased.  Every unit in flight belongs to the
\* list being dispatched, and a pool exists only while a list is being
\* dispatched; an isolated unit is submitted only after every parallel unit's
\* Result was received; a unit of a retry pass is submitted only after every
\* Result of the initial pass and of the earlier retry passes was received.
C22_PassesArePhased ==
    /\ UnitsOut \subseteq (IF bucket = "none" THEN {}
                            ELSE Range(passInputs[bucket]))
    /\ UnitsOut \subseteq running_jobs
    /\ pc # "dispatch" => pool = NoPool
    /\ (\E i \in 1..Len(submitted) : submitted[i].bucket = "isolated_tests")
          => /\ CurSet.parallel_tests = <<>>
             /\ Range(passInputs.parallel_tests) \subseteq ResultNames(CurResults)
    /\ (passes > 0 /\ submitted # <<>>)
          => /\ self_stats.finished = self_stats.total
             /\ self_stats.started = self_stats.total
             /\ Len(result_set) >= self_stats.total
             /\ passes > 1 => Len(result_set) > self_stats.total
             /\ UnitsOut \subseteq prevFailed

\* an isolated unit was submitted after a parallel one, and is in flight
C22_Witness ==
    /\ \E i, j \in 1..Len(submitted) :
          /\ i < j
          /\ submitted[i].bucket = "parallel_tests"
          /\ submitted[j].bucket = "isolated_tests"
    /\ UnitsOut # {}

\* C24: the first-retry side effects (overwrite off on the arguments and on
\* the printer, verbosity capped to 1) are applied exactly once per run,
\* before the first retry pass: not when no retry happened, and not again on
\* a later retry attempt.
C24_FirstRetryEffectsOnce ==
    /\ passes = 0 => /\ first_retries = 0
                     /\ args.overwrite
                     /\ printer.should_overwrite
                     /\ args.verbose = VerboseGiven
    /\ passes > 0 => /\ first_retries = 1
                     /\ ~args.overwrite
                     /\ ~printer.should_overwrite
                     /\ args.verbose = Min(VerboseGiven, 1)

\* a second retry pass is under way
C24_Witness ==
    /\ passes = 2
    /\ first_retries = 1
    /\ submitted # <<>>

\* C23: _load_via_load_tests tries the prefixes from longest to shortest and
\* stops at the first prefix whose suite holds a test case of the requested
\* id: no shorter prefix is tried after a match, and the suite returned
\* holds at most one test case.
C23_StopsAtFirstMatch ==
    (pc = "load" /\ call.done /\ ~call.raised)
        => /\ call.new_suite <= 1
           /\ \A i, j \in 1..Len(call.tried) :
                 i < j => /\ call.tried[j] < call.tried[i]
                          /\ call.what[call.tried[i]].suite # "match"

\* a pass is over: _run_one_set returned
PassOver ==
    \/ pc = "list_returned" /\ bucket = "isolated_tests"
    \/ pc = "retry_loop"
    \/ pc = "tests_run" /\ bucket = "isolated_tests"

\* C25: within a pass finished <= started <= total holds of the Stats in
\* every reachable state, and when the pass is over finished = started =
\* total.
C25_StatsAreOrderedAndComplete ==
    /\ self_stats.finished <= self_stats.started
    /\ self_stats.started <= self_stats.total
    /\ retry_stats.finished <= retry_stats.started
    /\ retry_stats.started <= retry_stats.total
    /\ PassOver => /\ CurStats.finished = CurStats.started
                   /\ CurStats.started = CurStats.total

\* C28: for every jobs value the parser accepts every pass ends with every
\* unit of the two lists run: a _run_list call returns only when its list is
\* empty, and the dispatcher waits for a Result only while a unit is in flight.
C28_EveryUnitRunsForEveryJobs ==
    /\ pc = "list_returned" => TestInputs = <<>>
    /\ (pc = "dispatch" /\ LoopRuns /\ ~CanSend) => InFlight > 0

\* C30: when _run_one_set has returned, the parallel_tests and
\* isolated_tests lists of the TestSet it was given are empty, its
\* tests_to_skip, context, setup_fn and teardown_fn are as given, and
\* all_tests, taken before, still names every unit of the three lists.
C30_PassConsumesItsLists ==
    PassOver
        => /\ CurSet.parallel_tests = <<>>
           /\ CurSet.isolated_tests = <<>>
           /\ Names(CurSet.tests_to_skip) = passInputs.tests_to_skip
           /\ CurSet.context = "context"
           /\ CurSet.setup_fn = "setup_fn"
           /\ CurSet.teardown_fn = "teardown_fn"
           /\ passes = 0
                 => Range(all_tests) = Range(passInputs.parallel_tests)
                                       \cup Range(passInputs.isolated_tests)
                                       \cup Range(passInputs.tests_to_skip)

\* C27: after the initial pass and after every retry pass, the failed set
\* that drives the retry loop, computed from that pass's Results only, is
\* the set of the names whose most recent Result in the whole collection has
\* actual Failure.
C27_FailedIsLatestFailures ==
    pc = "retry_loop" => failed_tests = FailedTestNames(result_set)

\* a retry pass is over in which some of the retried units failed again and
\* some did not
C27_Witness ==
    /\ pc = "retry_loop"
    /\ passes = 1
    /\ failed_tests # {}
    /\ failed_tests # prevFailed

\* a Result's actual is one of the three outcomes and its unexpected flag
\* says that actual is not among expected
WellFormed(r) ==
    /\ r.actual \in {"Pass", "Failure", "Skip"}
    /\ r.unexpected <=> r.actual \notin r.expected

\* C26: every Result the engine creates (the Result of a skipped unit, the
\* Failure of a wrong-cardinality load, every Result of
\* _result_from_test_result) has actual in {Pass, Failure, Skip} and is
\* unexpected exactly when actual is not a member of expected.
C26_ResultsAreWellFormed ==
    pc = "child"
        => /\ \A i \in 1..Len(result_set) : WellFormed(result_set[i])
           /\ (call.done /\ ~call.ret.raised) => WellFormed(call.ret.result)

\* the Result of an expected failure, next to the Result of a skipped unit
C26_Witness ==
    /\ pc = "child"
    /\ call.done
    /\ ~call.ret.raised
    /\ call.ret.result.actual = "Failure"
    /\ ~call.ret.result.unexpected
    /\ result_set # <<>>

\* C29: every capture_output call of _run_one_test is matched by exactly one
\* restore_output call when the call is over, on every exit path: a run, a
\* wrong-cardinality load, an exception in the fallback loader.
C29_CaptureIsRestored ==
    (pc = "child" /\ call.done)
        => /\ call.ret.captures = 1
           /\ call.ret.restores = 1

====
